---- MODULE Spec2Model ----
(***************************************************************************)
(* CryptoGoldAlertBot: the news filter (filter.py), its sent-title history *)
(* and the scheduler (scheduler.py) that runs the fetch-filter-send cycle  *)
(* and the weekly cleanup.                                                 *)
(*                                                                         *)
(* Text is modelled as a sequence of one-character strings.  A relevance   *)
(* score is an integer number of tenths (2.0 is 20, the 0.1 threshold is   *)
(* 1): every weight of the code is a multiple of 0.5, so the float sums of *)
(* the code are exact.                                                     *)
(***************************************************************************)
EXTENDS Integers, Sequences, FiniteSets, TLC

(***************************************************************************)
(* Configuration (config.py)                                               *)
(***************************************************************************)
CRYPTO_KEYWORDS ==
  << <<"b","i","t","c","o","i","n">>,
     <<"e","t","h","e","r","e","u","m">>,
     <<"b","i","n","a","n","c","e">>,
     <<"e","t","f">>,
     <<"c","r","y","p","t","o">>,
     <<"c","r","y","p","t","o","c","u","r","r","e","n","c","y">>,
     <<"a","l","t","c","o","i","n">>,
     <<"m","a","r","k","e","t">>,
     <<"b","u","l","l">>,
     <<"b","e","a","r">>,
     <<"t","r","a","d","i","n","g">>,
     <<"b","t","c">>,
     <<"e","t","h">>,
     <<"b","l","o","c","k","c","h","a","i","n">>,
     <<"d","e","f","i">>,
     <<"n","f","t">>,
     <<"c","o","i","n">>,
     <<"d","i","g","i","t","a","l">>,
     <<"m","i","n","i","n","g">>,
     <<"w","a","l","l","e","t">>,
     <<"e","x","c","h","a","n","g","e">>,
     <<"p","r","i","c","e">>,
     <<"s","u","r","g","e">>,
     <<"r","a","l","l","y">>,
     <<"d","r","o","p">>,
     <<"i","n","v","e","s","t","m","e","n","t">>,
     <<"t","o","k","e","n">>,
     <<"d","e","c","e","n","t","r","a","l","i","z","e","d">>,
     <<"w","e","b","3">> >>

GOLD_KEYWORDS ==
  << <<"g","o","l","d">>,
     <<"p","r","e","c","i","o","u","s">>,
     <<"m","e","t","a","l","s">>,
     <<"b","u","l","l","i","o","n">>,
     <<"m","i","n","i","n","g">>,
     <<"m","i","n","e","r","s">>,
     <<"c","o","p","p","e","r">>,
     <<"s","i","l","v","e","r">>,
     <<"c","o","m","m","o","d","i","t","y">>,
     <<"r","e","s","o","u","r","c","e","s">>,
     <<"e","x","p","l","o","r","a","t","i","o","n">>,
     <<"d","i","s","c","o","v","e","r","y">>,
     <<"r","e","s","e","r","v","e","s">>,
     <<"p","r","o","d","u","c","t","i","o","n">>,
     <<"o","u","t","p","u","t">>,
     <<"m","a","r","k","e","t">>,
     <<"p","r","i","c","e">>,
     <<"i","n","v","e","s","t","m","e","n","t">>,
     <<"s","a","f","e">>,
     <<"h","a","v","e","n">>,
     <<"i","n","f","l","a","t","i","o","n">> >>

\* config.MAX_STORED_HEADLINES is 50 in config.py; the model keeps the name
\* and scales the value down so that the history can outgrow it.
MAX_STORED_HEADLINES == 2

(***************************************************************************)
(* Text primitives of Python's str and re that the filter uses             *)
(***************************************************************************)
LowerOf ==
  [A |-> "a", B |-> "b", C |-> "c", D |-> "d", E |-> "e", F |-> "f",
   G |-> "g", H |-> "h", I |-> "i", J |-> "j", K |-> "k", L |-> "l",
   M |-> "m", N |-> "n", O |-> "o", P |-> "p", Q |-> "q", R |-> "r",
   S |-> "s", T |-> "t", U |-> "u", V |-> "v", W |-> "w", X |-> "x",
   Y |-> "y", Z |-> "z"]

LowerLetters ==
  {"a","b","c","d","e","f","g","h","i","j","k","l","m",
   "n","o","p","q","r","s","t","u","v","w","x","y","z"}

Digits == {"0","1","2","3","4","5","6","7","8","9"}

\* \s of the regular expression, and what str.strip / str.split treat as blank
IsSpace(c) == c \in {" ", "\t", "\n"}

\* \w of the regular expression: letters, digits and the underscore
IsWord(c) == c \in LowerLetters \cup DOMAIN LowerOf \cup Digits \cup {"_"}

\* str.lower()
Lower(s) == [i \in 1..Len(s) |-> IF s[i] \in DOMAIN LowerOf THEN LowerOf[s[i]] ELSE s[i]]

\* str.strip()
Strip(s) ==
  LET keep == {i \in 1..Len(s) : ~IsSpace(s[i])}
  IN  IF keep = {} THEN <<>>
      ELSE LET lo == CHOOSE i \in keep : \A j \in keep : i <= j
               hi == CHOOSE i \in keep : \A j \in keep : j <= i
           IN  SubSeq(s, lo, hi)

\* re.sub(r'[^\w\s]', '', s)
RemoveNonWord(s) == SelectSeq(s, LAMBDA c : IsWord(c) \/ IsSpace(c))

\* set(s.split()): the set of maximal runs of non-blank characters
SplitSet(s) ==
  LET starts == {i \in 1..Len(s) : ~IsSpace(s[i]) /\ (i = 1 \/ IsSpace(s[i - 1]))}
      ends == {j \in 1..Len(s) : ~IsSpace(s[j]) /\ (j = Len(s) \/ IsSpace(s[j + 1]))}
      EndOf(i) == CHOOSE j \in ends : j >= i /\ \A k \in ends : k >= i => j <= k
  IN  {SubSeq(s, i, EndOf(i)) : i \in starts}

\* whether sub occurs in s at position i
OccursAt(s, sub, i) ==
  /\ i >= 1
  /\ i + Len(sub) - 1 <= Len(s)
  /\ SubSeq(s, i, i + Len(sub) - 1) = sub

\* `sub in s`
Contains(s, sub) == \E i \in 1..(Len(s) + 1) : OccursAt(s, sub, i)

\* s.count(sub): the number of non-overlapping occurrences, scanning from the left
RECURSIVE CountFrom(_, _, _)
CountFrom(s, sub, i) ==
  IF i + Len(sub) - 1 > Len(s) THEN 0
  ELSE IF OccursAt(s, sub, i)
       THEN 1 + CountFrom(s, sub, i + (IF Len(sub) = 0 THEN 1 ELSE Len(sub)))
       ELSE CountFrom(s, sub, i + 1)

Count(s, sub) == CountFrom(s, sub, 1)

Range(f) == {f[i] : i \in DOMAIN f}

\* seq[-n:] for n > 0
LastN(seq, n) ==
  IF Len(seq) <= n THEN seq ELSE SubSeq(seq, Len(seq) - n + 1, Len(seq))

\* dict.get(key, default)
Get(d, key, default) == IF key \in DOMAIN d THEN d[key] ELSE default

(***************************************************************************)
(* NewsFilter (filter.py): the pure part                                   *)
(***************************************************************************)
\* similarity_ratio returns intersection / union as a float; the model keeps
\* the fraction, 0.0 being 0/1
similarity_ratio(str1, str2) ==
  IF str1 = <<>> \/ str2 = <<>> THEN [num |-> 0, den |-> 1]
  ELSE LET words1 == SplitSet(str1)
           words2 == SplitSet(str2)
       IN  IF words1 = {} \/ words2 = {} THEN [num |-> 0, den |-> 1]
           ELSE LET intersection == Cardinality(words1 \cap words2)
                    union == Cardinality(words1 \cup words2)
                IN  IF union > 0 THEN [num |-> intersection, den |-> union]
                    ELSE [num |-> 0, den |-> 1]

\* a threshold test that also admits a ratio of exactly 0.85
ExceedsThresholdInclusive(ratio) == ratio.num * 100 >= 85 * ratio.den

\* `ratio > 0.85`.  The double nearest to i/u is above the double 0.85 exactly
\* when i/u > 17/20, for the word counts of any title.
ExceedsThreshold(ratio) == ratio.num * 100 > 85 * ratio.den

\* re.sub(r'[^\w\s]', '', title.lower()).strip()
NormalizeTitle(title) == Strip(RemoveNonWord(Lower(title)))

\* a duplicate test that leaves out the exact-membership test
is_duplicate_similarity_only(title, sent) ==
  \E i \in 1..Len(sent) :
    ExceedsThreshold(similarity_ratio(NormalizeTitle(title), NormalizeTitle(sent[i])))

is_duplicate(title, sent) ==
  \/ title \in Range(sent)
  \/ \E i \in 1..Len(sent) :
       ExceedsThreshold(similarity_ratio(NormalizeTitle(title), NormalizeTitle(sent[i])))

contains_keywords(text, keywords) ==
  LET text_lower == Lower(text)
  IN  \E i \in 1..Len(keywords) : Contains(text_lower, Lower(keywords[i]))

\* the table of calculate_relevance_score, weights in tenths
important_terms ==
  << [term |-> <<"b","r","e","a","k","i","n","g">>, weight |-> 30],
     [term |-> <<"u","r","g","e","n","t">>, weight |-> 30],
     [term |-> <<"a","l","e","r","t">>, weight |-> 25],
     [term |-> <<"c","r","a","s","h">>, weight |-> 25],
     [term |-> <<"s","u","r","g","e">>, weight |-> 20],
     [term |-> <<"r","a","l","l","y">>, weight |-> 20],
     [term |-> <<"r","e","c","o","r","d">>, weight |-> 20],
     [term |-> <<"h","i","g","h">>, weight |-> 15],
     [term |-> <<"l","o","w">>, weight |-> 15],
     [term |-> <<"r","e","g","u","l","a","t","i","o","n">>, weight |-> 20],
     [term |-> <<"b","a","n">>, weight |-> 25],
     [term |-> <<"a","p","p","r","o","v","a","l">>, weight |-> 20] >>

\* a keyword loop that weighs title matches like summary matches
RECURSIVE KeywordScoreEqualWeights(_, _, _, _)
KeywordScoreEqualWeights(title, summary, keywords, i) ==
  IF i > Len(keywords) THEN 0
  ELSE LET keyword_lower == Lower(keywords[i])
       IN  Count(title, keyword_lower) * 10 + Count(summary, keyword_lower) * 10
             + KeywordScoreEqualWeights(title, summary, keywords, i + 1)

\* the keyword loop: title matches weigh 2.0, summary matches 1.0
RECURSIVE KeywordScore(_, _, _, _)
KeywordScore(title, summary, keywords, i) ==
  IF i > Len(keywords) THEN 0
  ELSE LET keyword_lower == Lower(keywords[i])
       IN  Count(title, keyword_lower) * 20 + Count(summary, keyword_lower) * 10
             + KeywordScore(title, summary, keywords, i + 1)

\* an important-terms loop that adds the weight for every occurrence of a term
RECURSIVE BonusScorePerOccurrence(_, _)
BonusScorePerOccurrence(combined_text, i) ==
  IF i > Len(important_terms) THEN 0
  ELSE Count(combined_text, important_terms[i].term) * important_terms[i].weight
         + BonusScorePerOccurrence(combined_text, i + 1)

\* the important-terms loop: each term present adds its weight once
RECURSIVE BonusScore(_, _)
BonusScore(combined_text, i) ==
  IF i > Len(important_terms) THEN 0
  ELSE (IF Contains(combined_text, important_terms[i].term)
        THEN important_terms[i].weight ELSE 0)
         + BonusScore(combined_text, i + 1)

\* article['category'] raises KeyError when the key is missing
ScoreRaises(article) == "category" \notin DOMAIN article

\* a score that counts the keywords in the title and summary as written
calculate_relevance_score_case_sensitive(article) ==
  LET title == Get(article, "title", <<>>)
      summary == Get(article, "summary", <<>>)
      combined_text == title \o <<" ">> \o summary
      keywords == IF article.category = "crypto" THEN CRYPTO_KEYWORDS ELSE GOLD_KEYWORDS
  IN  KeywordScore(title, summary, keywords, 1) + BonusScore(combined_text, 1)

\* calculate_relevance_score, for an article that has a category
calculate_relevance_score(article) ==
  LET title == Lower(Get(article, "title", <<>>))
      summary == Lower(Get(article, "summary", <<>>))
      combined_text == title \o <<" ">> \o summary
      keywords == IF article.category = "crypto" THEN CRYPTO_KEYWORDS ELSE GOLD_KEYWORDS
  IN  KeywordScore(title, summary, keywords, 1) + BonusScore(combined_text, 1)

\* article['relevance_score'] = relevance_score
Annotate(article, score) ==
  [k \in DOMAIN article \cup {"relevance_score"} |->
     IF k = "relevance_score" THEN score ELSE article[k]]

\* a keyword gate whose fallback admits every source that is not empty
has_keywords_any_source(article) ==
  LET title_and_summary == Get(article, "title", <<>>) \o <<" ">> \o Get(article, "summary", <<>>)
      source == Lower(Get(article, "source", <<>>))
  IN  IF article.category = "crypto"
      THEN contains_keywords(title_and_summary, CRYPTO_KEYWORDS) \/ source # <<>>
      ELSE contains_keywords(title_and_summary, GOLD_KEYWORDS) \/ source # <<>>

\* the keyword gate of filter_articles with its source fallback
has_keywords(article) ==
  LET title_and_summary == Get(article, "title", <<>>) \o <<" ">> \o Get(article, "summary", <<>>)
      source == Lower(Get(article, "source", <<>>))
  IN  IF article.category = "crypto"
      THEN \/ contains_keywords(title_and_summary, CRYPTO_KEYWORDS)
           \/ Contains(source, <<"c","o","i","n","d","e","s","k">>)
           \/ Contains(source, <<"c","o","i","n","t","e","l","e","g","r","a","p","h">>)
           \/ Contains(source, <<"d","e","c","r","y","p","t">>)
      ELSE \/ contains_keywords(title_and_summary, GOLD_KEYWORDS)
           \/ Contains(source, <<"m","i","n","i","n","g">>)

\* a loop body that adds the new score to a relevance_score already on the record
FilterOneAccumulating(article, sent) ==
  IF Get(article, "title", <<>>) = <<>> THEN [art |-> article, keep |-> FALSE]
  ELSE IF is_duplicate(article.title, sent) THEN [art |-> article, keep |-> FALSE]
  ELSE IF ScoreRaises(article) THEN [art |-> article, keep |-> FALSE]
  ELSE IF ~has_keywords(article) THEN [art |-> article, keep |-> FALSE]
  ELSE LET relevance_score == calculate_relevance_score(article)
                                + Get(article, "relevance_score", 0)
       IN  [art |-> Annotate(article, relevance_score), keep |-> relevance_score >= 1]

\* a loop body that appends every scored article, whatever its score
FilterOneNoThreshold(article, sent) ==
  IF Get(article, "title", <<>>) = <<>> THEN [art |-> article, keep |-> FALSE]
  ELSE IF is_duplicate(article.title, sent) THEN [art |-> article, keep |-> FALSE]
  ELSE IF ScoreRaises(article) THEN [art |-> article, keep |-> FALSE]
  ELSE IF ~has_keywords(article) THEN [art |-> article, keep |-> FALSE]
  ELSE LET relevance_score == calculate_relevance_score(article)
       IN  [art |-> Annotate(article, relevance_score), keep |-> TRUE]

\* the body of the loop of filter_articles for one article: the article as the
\* loop leaves it (annotated or not) and whether it was appended
FilterOne(article, sent) ==
  IF Get(article, "title", <<>>) = <<>> THEN [art |-> article, keep |-> FALSE]
  ELSE IF is_duplicate(article.title, sent) THEN [art |-> article, keep |-> FALSE]
  ELSE IF ScoreRaises(article) THEN [art |-> article, keep |-> FALSE]
  ELSE IF ~has_keywords(article) THEN [art |-> article, keep |-> FALSE]
  ELSE LET relevance_score == calculate_relevance_score(article)
       IN  [art |-> Annotate(article, relevance_score), keep |-> relevance_score >= 1]

\* the input list as the loop leaves it: the records are annotated in place
AnnotatedInput(articles, sent) ==
  [i \in 1..Len(articles) |-> FilterOne(articles[i], sent).art]

\* a loop with the try around it instead of in it: the first article that
\* raises ends the loop
RECURSIVE AcceptedAbortOnRaise(_, _, _)
AcceptedAbortOnRaise(articles, sent, i) ==
  IF i > Len(articles) THEN <<>>
  ELSE IF /\ Get(articles[i], "title", <<>>) # <<>>
          /\ ~is_duplicate(articles[i].title, sent)
          /\ ScoreRaises(articles[i])
       THEN <<>>
       ELSE LET r == FilterOne(articles[i], sent)
            IN  (IF r.keep THEN <<r.art>> ELSE <<>>) \o AcceptedAbortOnRaise(articles, sent, i + 1)

\* filtered_articles before the sort
RECURSIVE Accepted(_, _, _)
Accepted(articles, sent, i) ==
  IF i > Len(articles) THEN <<>>
  ELSE LET r == FilterOne(articles[i], sent)
       IN  (IF r.keep THEN <<r.art>> ELSE <<>>) \o Accepted(articles, sent, i + 1)

\* an insertion that puts an article before the articles of equal score
RECURSIVE InsertBeforeEqual(_, _)
InsertBeforeEqual(sorted, a) ==
  IF sorted = <<>> THEN <<a>>
  ELSE IF Get(Head(sorted), "relevance_score", 0) > Get(a, "relevance_score", 0)
       THEN <<Head(sorted)>> \o InsertBeforeEqual(Tail(sorted), a)
       ELSE <<a>> \o sorted

\* list.sort(key=relevance_score, reverse=True): stable, highest first
RECURSIVE InsertByScore(_, _)
InsertByScore(sorted, a) ==
  IF sorted = <<>> THEN <<a>>
  ELSE IF Get(Head(sorted), "relevance_score", 0) >= Get(a, "relevance_score", 0)
       THEN <<Head(sorted)>> \o InsertByScore(Tail(sorted), a)
       ELSE <<a>> \o sorted

RECURSIVE SortByScore(_, _)
SortByScore(list, i) ==
  IF i = 0 THEN <<>> ELSE InsertByScore(SortByScore(list, i - 1), list[i])

\* a filter_articles that cuts the list to 6 before it sorts
filter_articles_cut_before_sort(articles, sent) ==
  LET filtered_articles == Accepted(articles, sent, 1)
      max_articles == IF Len(filtered_articles) < 6 THEN Len(filtered_articles) ELSE 6
      cut == SubSeq(filtered_articles, 1, max_articles)
  IN  SortByScore(cut, Len(cut))

\* filter_articles: the returned list
filter_articles(articles, sent) ==
  LET filtered_articles == Accepted(articles, sent, 1)
      sorted == SortByScore(filtered_articles, Len(filtered_articles))
      max_articles == IF Len(sorted) < 6 THEN Len(sorted) ELSE 6
  IN  SubSeq(sorted, 1, max_articles)

(***************************************************************************)
(* The running program: NewsScheduler (scheduler.py) over one NewsFilter   *)
(***************************************************************************)
\* Bounds of the model
MaxBatch == 2
MaxFetches == 2

\* Articles as parse_articles builds them: stripped non-empty title, a category
FetchPool ==
  { [title |-> <<"b","t","c">>, summary |-> <<>>, category |-> "crypto",
     source |-> <<"C","o","i","n","D","e","s","k">>],
    [title |-> <<"e","t","h">>, summary |-> <<>>, category |-> "crypto",
     source |-> <<"D","e","c","r","y","p","t">>],
    [title |-> <<"$","$">>, summary |-> <<"e","t","h">>, category |-> "crypto",
     source |-> <<"D","e","c","r","y","p","t">>]
  }

RECURSIVE SeqsUpTo(_, _)
SeqsUpTo(S, n) ==
  IF n = 0 THEN {<<>>}
  ELSE LET shorter == SeqsUpTo(S, n - 1)
       IN  shorter \cup {Append(q, x) : q \in shorter, x \in S}

\* what fetch_all_news can return
FetchBatches == SeqsUpTo(FetchPool, MaxBatch)

\* the main thread and the scheduler's pool threads that can run the news job
Slots == {"main", "w1", "w2"}
Workers == Slots \ {"main"}

VARIABLES
  sent_headlines,  \* NewsFilter.sent_headlines, the in-memory history
  persisted,       \* the "headlines" list of data/sent_headlines.json
  main_pc,         \* the main thread in NewsScheduler.start
  cyc,             \* per thread: its execution of fetch_and_send_news
  cl_pc,           \* the cleanup job's position in cleanup_old_data
  cl_tmp,          \* the slice cleanup_old_data has computed and not yet stored
  fetches,         \* fetches that returned articles so far
  delivered,       \* history: titles for which send_message returned True
  marked,          \* history: every title passed to mark_as_sent, in order
  unsaved,         \* history: titles marked since a write of mark_as_sent failed
                   \* and no write has succeeded (the last `unsaved` of marked)
  h_sent,          \* direct calls of NewsFilter: its sent_headlines
  h_articles,      \* direct calls: the list passed to filter_articles
  h_out,           \* direct calls: what the last filter_articles call returned
  h_prev,          \* direct calls: what the call before it returned
  h_calls,         \* direct calls: filter_articles calls made on h_articles
  h_title,         \* direct calls: the title last passed to is_duplicate
  h_dup,           \* direct calls: what is_duplicate returned for it
  s_article,       \* direct calls: the record passed to calculate_relevance_score
  s_result,        \* direct calls: how that call ended, and the score it returned
  s_prev,          \* direct calls: the result for the record before the last addition
  s_added,         \* direct calls: the keyword occurrence last added to the record
  s_count,         \* direct calls: keyword occurrences added so far
  r_file,          \* history harness: data/sent_headlines.json, its kind and list
  r_sent,          \* history harness: NewsFilter.sent_headlines of the live process
  r_mark,          \* history harness: the mark_as_sent call in progress
  r_cl,            \* history harness: the cleanup_old_data call in progress
  r_marked,        \* history harness: every title passed to mark_as_sent, in order
  r_ok,            \* history harness: every save so far wrote the file
  r_load,          \* history harness: how the last load_sent_headlines ended
  r_fresh,         \* history harness: nothing was marked since the last load
  r_marks,         \* history harness: mark_as_sent calls so far
  r_restarts,      \* history harness: process restarts so far
  f_retries,       \* fetch_feed: its `retries` argument
  f_attempt,       \* fetch_feed: the loop variable `attempt`
  f_pc,            \* fetch_feed: "loop" inside the for loop, "done" after the return
  f_log,           \* fetch_feed: how each request attempt ended, in order
  f_sleeps,        \* fetch_feed: the seconds passed to time.sleep, in order
  f_result,        \* fetch_feed: what it returned
  n_retry_count,   \* fetch_and_send_news: its local retry_count
  n_pc,            \* fetch_and_send_news: "loop", "notify" or "done"
  n_log,           \* fetch_and_send_news: how each attempt of the cycle ended
  n_notes,         \* fetch_and_send_news: send_error_notification calls, how each ended
  n_sleeps,        \* fetch_and_send_news: time.sleep(10) calls before a retry
  n_runs,          \* fetch_and_send_news: invocations by the scheduler so far
  k_pc,            \* BotMonitor: "init" before start(), "loop" in monitor_loop, "ended"
  k_running,       \* BotMonitor.running
  k_bot,           \* BotMonitor.bot_process: "none", "running" or "exited"
  k_activity,      \* data/last_activity.txt: its kind and the age of its timestamp
  k_failures,      \* monitor_loop: its local consecutive_failures
  k_iter,          \* monitor_loop: what the last iteration found and did
  k_count          \* monitor_loop: iterations so far

pvars == <<sent_headlines, persisted, main_pc, cyc, cl_pc, cl_tmp, fetches, delivered, marked, unsaved>>

svars == <<s_article, s_result, s_prev, s_added, s_count>>

rvars == <<r_file, r_sent, r_mark, r_cl, r_marked, r_ok, r_load, r_fresh, r_marks, r_restarts>>

fvars == <<f_retries, f_attempt, f_pc, f_log, f_sleeps, f_result>>

nvars == <<n_retry_count, n_pc, n_log, n_notes, n_sleeps, n_runs>>

kvars == <<k_pc, k_running, k_bot, k_activity, k_failures, k_iter, k_count>>

\* the variables of the harnesses added after the first ones
evars == <<rvars, fvars, nvars, kvars>>

hvars == <<h_sent, h_articles, h_out, h_prev, h_calls, h_title, h_dup, svars, evars>>

vars == <<pvars, hvars>>

NoTitle == <<"(none)">>

IdleCycle == [pc |-> "idle", articles |-> <<>>, filtered |-> <<>>, idx |-> 0, results |-> <<>>]

NoResult == [outcome |-> "none", score |-> 0]

NoAdd == [field |-> "none", keyword |-> <<>>]

SInit ==
  /\ s_article = [category |-> "crypto"]
  /\ s_result = NoResult
  /\ s_prev = NoResult
  /\ s_added = NoAdd
  /\ s_count = 0

IdleMark == [pc |-> "idle", title |-> <<>>]

IdleCleanup == [pc |-> "idle", tmp |-> <<>>, before |-> <<>>, saved |-> FALSE]

RInit ==
  /\ r_file = [kind |-> "absent", headlines |-> <<>>]
  /\ r_sent = <<>>
  /\ r_mark = IdleMark
  /\ r_cl = IdleCleanup
  /\ r_marked = <<>>
  /\ r_ok = TRUE
  /\ r_load = "none"
  /\ r_fresh = TRUE
  /\ r_marks = 0
  /\ r_restarts = 0

FInit ==
  /\ f_retries = 0
  /\ f_attempt = 0
  /\ f_pc = "idle"
  /\ f_log = <<>>
  /\ f_sleeps = <<>>
  /\ f_result = "unset"

NInit ==
  /\ n_retry_count = 0
  /\ n_pc = "idle"
  /\ n_log = <<>>
  /\ n_notes = <<>>
  /\ n_sleeps = 0
  /\ n_runs = 0

NoIteration == [bot |-> "none", activity |-> [kind |-> "missing", age |-> 0],
                failures |-> 0, calls |-> <<>>, started |-> FALSE, after_start |-> 0,
                checked |-> "no", peak |-> 0, notes |-> <<>>, ended |-> 0]

KInit ==
  /\ k_pc = "idle"
  /\ k_running = FALSE
  /\ k_bot = "none"
  /\ k_activity = [kind |-> "missing", age |-> 0]
  /\ k_failures = 0
  /\ k_iter = NoIteration
  /\ k_count = 0

EInit == RInit /\ FInit /\ NInit /\ KInit

HInit ==
  /\ SInit
  /\ EInit
  /\ h_sent = <<>>
  /\ h_articles = <<>>
  /\ h_out = <<>>
  /\ h_prev = <<>>
  /\ h_calls = 0
  /\ h_title = NoTitle
  /\ h_dup = FALSE

PInit ==
  /\ sent_headlines = <<>>
  /\ persisted = <<>>
  /\ main_pc = "start"
  /\ cyc = [s \in Slots |-> IdleCycle]
  /\ cl_pc = "idle"
  /\ cl_tmp = <<>>
  /\ fetches = 0
  /\ delivered = {}
  /\ marked = <<>>
  /\ unsaved = 0

Init == PInit /\ HInit

Running(s) == cyc[s].pc # "idle"

\* a scheduler that submits a run of the news job whatever is running
CanSubmitNoLimit == TRUE

\* max_instances=1 of the news job: the scheduler submits a run only while
\* fewer than one instance is running
CanSubmit == Cardinality({w \in Workers : Running(w)}) < 1

\* start(): the initial fetch runs on the main thread, before scheduler.start()
StartInitialFetch ==
  /\ main_pc = "start"
  /\ main_pc' = "initial"
  /\ cyc' = [cyc EXCEPT !["main"].pc = "fetch"]
  /\ UNCHANGED <<sent_headlines, persisted, cl_pc, cl_tmp, fetches, delivered, marked, unsaved, hvars>>

\* start(): scheduler.start() once the initial fetch has returned
StartScheduler ==
  /\ main_pc = "initial"
  /\ ~Running("main")
  /\ main_pc' = "scheduling"
  /\ UNCHANGED <<sent_headlines, persisted, cyc, cl_pc, cl_tmp, fetches, delivered, marked, unsaved, hvars>>

\* the pool thread that takes a submitted run: the pool's threads are
\* interchangeable, the first idle one stands for whichever takes it
FirstIdle(w) ==
  /\ ~Running(w)
  /\ w = "w2" => Running("w1")

\* the interval trigger of news_fetch_job fires and a pool thread takes the run
TriggerNewsJob(w) ==
  /\ main_pc = "scheduling"
  /\ FirstIdle(w)
  /\ CanSubmit
  /\ cyc' = [cyc EXCEPT ![w].pc = "fetch"]
  /\ UNCHANGED <<sent_headlines, persisted, main_pc, cl_pc, cl_tmp, fetches, delivered, marked, unsaved, hvars>>

\* articles = fetch_all_news(); `if not articles: return`
FetchAllNews(s) ==
  /\ cyc[s].pc = "fetch"
  /\ \E batch \in FetchBatches :
       /\ batch # <<>> => fetches < MaxFetches
       /\ fetches' = IF batch = <<>> THEN fetches ELSE fetches + 1
       /\ cyc' = [cyc EXCEPT ![s] =
                    IF batch = <<>> THEN IdleCycle
                    ELSE [IdleCycle EXCEPT !.pc = "filter", !.articles = batch]]
  /\ UNCHANGED <<sent_headlines, persisted, main_pc, cl_pc, cl_tmp, delivered, marked, unsaved, hvars>>

\* a filter step that records the titles it accepts in the history
FilterArticlesMarking(s) ==
  /\ cyc[s].pc = "filter"
  /\ LET out == filter_articles(cyc[s].articles, sent_headlines)
         titles == [i \in 1..Len(out) |-> out[i].title]
     IN  /\ cyc' = [cyc EXCEPT ![s] =
                      IF out = <<>> THEN IdleCycle
                      ELSE [@ EXCEPT !.pc = "send", !.filtered = out, !.idx = 1,
                                     !.articles = AnnotatedInput(@, sent_headlines)]]
         /\ sent_headlines' = sent_headlines \o titles
         /\ persisted' = LastN(sent_headlines', MAX_STORED_HEADLINES)
  /\ UNCHANGED <<main_pc, cl_pc, cl_tmp, fetches, delivered, marked, unsaved, hvars>>

\* filtered_articles = filter_articles(articles); `if not filtered_articles: return`
FilterArticles(s) ==
  /\ cyc[s].pc = "filter"
  /\ LET out == filter_articles(cyc[s].articles, sent_headlines)
     IN  cyc' = [cyc EXCEPT ![s] =
                   IF out = <<>> THEN IdleCycle
                   ELSE [@ EXCEPT !.pc = "send", !.filtered = out, !.idx = 1,
                                  !.articles = AnnotatedInput(@, sent_headlines)]]
  /\ UNCHANGED <<sent_headlines, persisted, main_pc, cl_pc, cl_tmp, fetches, delivered, marked, unsaved, hvars>>

\* the loop moves to the next article, or leaves the loop
NextArticle(c) ==
  IF c.idx < Len(c.filtered) THEN [c EXCEPT !.pc = "send", !.idx = c.idx + 1]
  ELSE [c EXCEPT !.pc = "finish", !.idx = c.idx + 1]

\* a send loop that calls mark_as_sent whatever send_message returned
SendMessageMarkAlways(s) ==
  /\ cyc[s].pc = "send"
  /\ \E outcome \in {"ok", "fail", "raise"} :
       LET c == cyc[s]
           title == c.filtered[c.idx].title
           r == [title |-> title, outcome |-> outcome, marks |-> 0]
       IN  /\ cyc' = [cyc EXCEPT ![s] = [c EXCEPT !.results = Append(@, r), !.pc = "mark"]]
           /\ delivered' = IF outcome = "ok" THEN delivered \cup {title} ELSE delivered
  /\ UNCHANGED <<sent_headlines, persisted, main_pc, cl_pc, cl_tmp, fetches, marked, unsaved, hvars>>

\* format_article_message and send_message for filtered_articles[idx]: the send
\* returns True ("ok"), returns False ("fail"), or the body raises ("raise")
SendMessage(s) ==
  /\ cyc[s].pc = "send"
  /\ \E outcome \in {"ok", "fail", "raise"} :
       LET c == cyc[s]
           title == c.filtered[c.idx].title
           r == [title |-> title, outcome |-> outcome, marks |-> 0]
           c1 == [c EXCEPT !.results = Append(@, r)]
       IN  /\ cyc' = [cyc EXCEPT ![s] =
                        IF outcome = "ok" THEN [c1 EXCEPT !.pc = "mark"] ELSE NextArticle(c1)]
           /\ delivered' = IF outcome = "ok" THEN delivered \cup {title} ELSE delivered
  /\ UNCHANGED <<sent_headlines, persisted, main_pc, cl_pc, cl_tmp, fetches, marked, unsaved, hvars>>

\* mark_as_sent, first statement: self.sent_headlines.append(title)
MarkAppend(s) ==
  /\ cyc[s].pc = "mark"
  /\ LET c == cyc[s]
         title == c.filtered[c.idx].title
     IN  /\ sent_headlines' = Append(sent_headlines, title)
         /\ marked' = Append(marked, title)
         /\ cyc' = [cyc EXCEPT ![s].pc = "save",
                               ![s].results[c.idx].marks = @ + 1]
  /\ unsaved' = IF unsaved > 0 THEN unsaved + 1 ELSE 0
  /\ UNCHANGED <<persisted, main_pc, cl_pc, cl_tmp, fetches, delivered, hvars>>

\* save_sent_headlines: the last MAX_STORED_HEADLINES entries are written; a
\* failed write is logged and leaves the file as it was
SaveResult(ok) == IF ok THEN LastN(sent_headlines, MAX_STORED_HEADLINES) ELSE persisted

\* mark_as_sent, second statement: self.save_sent_headlines()
MarkSave(s) ==
  /\ cyc[s].pc = "save"
  /\ \E ok \in BOOLEAN :
       /\ persisted' = SaveResult(ok)
       /\ unsaved' = IF ok THEN 0 ELSE IF unsaved = 0 THEN 1 ELSE unsaved
  /\ cyc' = [cyc EXCEPT ![s] = NextArticle(@)]
  /\ UNCHANGED <<sent_headlines, main_pc, cl_pc, cl_tmp, fetches, delivered, marked, hvars>>

\* after the loop: the log line and the activity timestamp, then `break`
FinishCycle(s) ==
  /\ cyc[s].pc = "finish"
  /\ cyc' = [cyc EXCEPT ![s] = IdleCycle]
  /\ UNCHANGED <<sent_headlines, persisted, main_pc, cl_pc, cl_tmp, fetches, delivered, marked, unsaved, hvars>>

\* cleanup_old_data on a pool thread: the right-hand side of the assignment,
\* self.news_filter.sent_headlines[-MAX_STORED_HEADLINES:], builds a new list
CleanupSlice ==
  /\ main_pc = "scheduling"
  /\ cl_pc = "idle"
  /\ cl_tmp' = LastN(sent_headlines, MAX_STORED_HEADLINES)
  /\ cl_pc' = "store"
  /\ UNCHANGED <<sent_headlines, persisted, main_pc, cyc, fetches, delivered, marked, unsaved, hvars>>

\* cleanup_old_data: the new list is stored into self.news_filter.sent_headlines
CleanupStore ==
  /\ cl_pc = "store"
  /\ sent_headlines' = cl_tmp
  /\ cl_tmp' = <<>>
  /\ cl_pc' = "save"
  /\ UNCHANGED <<persisted, main_pc, cyc, fetches, delivered, marked, unsaved, hvars>>

\* cleanup_old_data: self.news_filter.save_sent_headlines(), then the notification
CleanupSave ==
  /\ cl_pc = "save"
  /\ \E ok \in BOOLEAN :
       /\ persisted' = SaveResult(ok)
       /\ unsaved' = IF ok THEN 0 ELSE unsaved
  /\ cl_pc' = "idle"
  /\ UNCHANGED <<sent_headlines, main_pc, cyc, cl_tmp, fetches, delivered, marked, hvars>>

Next ==
  \/ StartInitialFetch
  \/ StartScheduler
  \/ \E w \in Workers : TriggerNewsJob(w)
  \/ \E s \in Slots : FetchAllNews(s)
  \/ \E s \in Slots : FilterArticles(s)
  \/ \E s \in Slots : SendMessage(s)
  \/ \E s \in Slots : MarkAppend(s)
  \/ \E s \in Slots : MarkSave(s)
  \/ \E s \in Slots : FinishCycle(s)
  \/ CleanupSlice
  \/ CleanupStore
  \/ CleanupSave

Spec == Init /\ [][Next]_vars

(***************************************************************************)
(* Direct calls of NewsFilter's methods on chosen inputs                   *)
(***************************************************************************)
MaxDirectBatch == 2
MaxHistory == 2

\* <<"a"," ","b"," ", ...>>: the first n letters as n one-letter words
Letters == <<"a","b","c","d","e","f","g","h","i","j","k","l","m","n","o","p","q","r","s","t","u">>

RECURSIVE Words(_)
Words(n) == IF n = 1 THEN <<Letters[1]>> ELSE Words(n - 1) \o <<" ", Letters[n]>>

\* article records a caller may pass to filter_articles
DirectPool ==
  { [title |-> <<>>, summary |-> <<"b","t","c">>, category |-> "crypto", source |-> <<>>],
    [title |-> <<" "," ">>, summary |-> <<"b","t","c">>, category |-> "crypto", source |-> <<>>],
    [title |-> <<"b","t","c">>, summary |-> <<>>, category |-> "crypto",
     source |-> <<"C","o","i","n","D","e","s","k">>],
    [title |-> <<"B","T","C","!">>, summary |-> <<>>, category |-> "crypto", source |-> <<>>],
    [title |-> <<"g","o","l","d"," ","r","a","l","l","y">>, summary |-> <<>>,
     category |-> "gold", source |-> <<>>],
    [title |-> <<"x","y","z">>, summary |-> <<>>, category |-> "gold",
     source |-> <<"R","e","u","t","e","r","s">>],
    [summary |-> <<"b","t","c">>, category |-> "crypto"],
    [title |-> <<"e","t","h">>, summary |-> <<>>],
    [title |-> <<"n","e","w">>, summary |-> <<>>, category |-> "crypto",
     source |-> <<"D","e","c","r","y","p","t">>],
    [title |-> <<"b","a","n">>, summary |-> <<>>, category |-> "crypto",
     source |-> <<"C","o","i","n","T","e","l","e","g","r","a","p","h">>],
    [title |-> <<"l","o","w">>, summary |-> <<>>, category |-> "gold",
     source |-> <<"M","i","n","i","n","g"," ","W","e","e","k","l","y">>],
    [title |-> <<"h","i","g","h"," ","l","o","w">>, summary |-> <<>>, category |-> "gold",
     source |-> <<"R","e","u","t","e","r","s">>] }

DirectHistories ==
  { <<>>,
    << <<"b","t","c">> >>,
    << <<" "," ">> >>,
    << <<"g","o","l","d"," ","r","a","l","l","y">>, <<"n","e","w">> >> }

\* titles passed to is_duplicate and stored in its history
DupTitles ==
  { <<>>, <<" "," ">>, <<"b","t","c">>, <<"B","T","C","!">>, <<"b","t","c"," ","b","t","c">>,
    <<"!","!">>, Words(5), Words(6), Words(7), Words(17), Words(20) }

InitFilter ==
  /\ PInit
  /\ SInit
  /\ EInit
  /\ h_sent \in DirectHistories
  /\ h_articles \in SeqsUpTo(DirectPool, MaxDirectBatch)
  /\ h_out = <<>>
  /\ h_prev = <<>>
  /\ h_calls = 0
  /\ h_title = NoTitle
  /\ h_dup = FALSE

\* filter_articles(h_articles): the records of the list are annotated in place
CallFilterArticles ==
  /\ h_calls < 2
  /\ h_calls' = h_calls + 1
  /\ h_prev' = h_out
  /\ h_out' = filter_articles(h_articles, h_sent)
  /\ h_articles' = AnnotatedInput(h_articles, h_sent)
  /\ UNCHANGED <<h_sent, h_title, h_dup, svars, evars, pvars>>

NextFilter == CallFilterArticles

SpecFilter == InitFilter /\ [][NextFilter]_vars

InitDup ==
  /\ PInit
  /\ SInit
  /\ EInit
  /\ h_sent \in SeqsUpTo(DupTitles, MaxHistory)
  /\ h_articles = <<>>
  /\ h_out = <<>>
  /\ h_prev = <<>>
  /\ h_calls = 0
  /\ h_title = NoTitle
  /\ h_dup = FALSE

\* is_duplicate(title)
CallIsDuplicate ==
  /\ \E title \in DupTitles :
       /\ h_title' = title
       /\ h_dup' = is_duplicate(title, h_sent)
  /\ UNCHANGED <<h_sent, h_articles, h_out, h_prev, h_calls, svars, evars, pvars>>

NextDup == CallIsDuplicate

SpecDup == InitDup /\ [][NextDup]_vars

\* the length of the lists passed to filter_articles to reach its cap of 6
MaxCapBatch == 7

\* records of three kinds: score 2.0, score 3.0, rejected at the keyword gate
CapPool ==
  { [title |-> <<"b","t","c">>, summary |-> <<>>, category |-> "crypto", source |-> <<>>],
    [title |-> <<"e","t","f">>, summary |-> <<"e","t","f">>, category |-> "crypto",
     source |-> <<>>],
    [title |-> <<"x","y","z">>, summary |-> <<>>, category |-> "gold",
     source |-> <<"R","e","u","t","e","r","s">>] }

InitCap ==
  /\ PInit
  /\ SInit
  /\ EInit
  /\ h_sent = <<>>
  /\ h_articles \in [1..MaxCapBatch -> CapPool]
  /\ h_out = <<>>
  /\ h_prev = <<>>
  /\ h_calls = 0
  /\ h_title = NoTitle
  /\ h_dup = FALSE

\* one filter_articles(h_articles) call
CallFilterArticlesOnce == h_calls = 0 /\ CallFilterArticles

NextCap == CallFilterArticlesOnce

SpecCap == InitCap /\ [][NextCap]_vars

\* keyword occurrences added to one record
MaxAdded == 2

\* article records a caller may pass to calculate_relevance_score
ScorePool ==
  { [title |-> <<"b","i","t","c","o","i","n">>, summary |-> <<>>, category |-> "crypto"],
    [title |-> <<"b","t","c"," ","h","i","g","h"," ","h","i","g","h">>,
     summary |-> <<"b","t","c">>, category |-> "crypto"],
    [title |-> <<"g","o","l","d">>, summary |-> <<"g","o","l","d"," ","r","a","l","l","y">>,
     category |-> "gold"],
    [title |-> <<"e","t","h","e","r","e","u","m"," ","e","t","f">>,
     summary |-> <<"c","r","y","p","t","o"," ","m","a","r","k","e","t">>, category |-> "crypto"],
    [title |-> <<"c","r","y","p","t","o","c","u","r","r","e","n","c","y">>, summary |-> <<>>,
     category |-> "crypto"],
    [title |-> <<"d","e","c","e","n","t","r","a","l","i","z","e",
                 "d","e","c","e","n","t","r","a","l","i","z","e","d">>,
     summary |-> <<>>, category |-> "crypto"],
    [title |-> <<"s","u","r","g","e">>, summary |-> <<>>, category |-> "crypto"],
    [title |-> <<"g","o","l","d"," ","p","r","i","c","e">>,
     summary |-> <<"B","r","e","a","k","i","n","g",":"," ","s","i","l","v","e","r">>,
     category |-> "gold"],
    [title |-> <<"B","T","C">>, category |-> "crypto"],
    [summary |-> <<"b","t","c">>, category |-> "crypto"],
    [title |-> <<"n","f","t">>, summary |-> <<>>, category |-> "gold"],
    [title |-> <<"e","t","h">>, summary |-> <<>>] }

\* calculate_relevance_score(article): the score, or the KeyError of article['category']
ScoreCall(article) ==
  IF ScoreRaises(article) THEN [outcome |-> "raised", score |-> 0]
  ELSE [outcome |-> "returned", score |-> calculate_relevance_score(article)]

\* the record with one more occurrence of a keyword, appended as a word of its own
WithOccurrence(article, field, keyword) ==
  [k \in DOMAIN article \cup {field} |->
     IF k = field THEN Get(article, field, <<>>) \o <<" ">> \o keyword ELSE article[k]]

\* the keyword list calculate_relevance_score selects for the record
KeywordsOf(article) == IF article.category = "crypto" THEN CRYPTO_KEYWORDS ELSE GOLD_KEYWORDS

InitScore ==
  /\ PInit
  /\ EInit
  /\ h_sent = <<>>
  /\ h_articles = <<>>
  /\ h_out = <<>>
  /\ h_prev = <<>>
  /\ h_calls = 0
  /\ h_title = NoTitle
  /\ h_dup = FALSE
  /\ s_article \in ScorePool
  /\ s_result = NoResult
  /\ s_prev = NoResult
  /\ s_added = NoAdd
  /\ s_count = 0

\* calculate_relevance_score(s_article)
CallCalculateRelevanceScore ==
  /\ s_result.outcome = "none"
  /\ s_result' = ScoreCall(s_article)
  /\ UNCHANGED <<s_article, s_prev, s_added, s_count, pvars, evars,
                 h_sent, h_articles, h_out, h_prev, h_calls, h_title, h_dup>>

\* calculate_relevance_score of the record with one more occurrence of a
\* keyword of its list that its title already holds
CallWithOccurrence ==
  /\ s_result.outcome = "returned"
  /\ s_count < MaxAdded
  /\ \E field \in {"title", "summary"} :
       \E i \in 1..Len(KeywordsOf(s_article)) :
         LET keyword == Lower(KeywordsOf(s_article)[i])
         IN  /\ Contains(Lower(Get(s_article, "title", <<>>)), keyword)
             /\ s_article' = WithOccurrence(s_article, field, keyword)
             /\ s_added' = [field |-> field, keyword |-> keyword]
  /\ s_prev' = s_result
  /\ s_result' = ScoreCall(s_article')
  /\ s_count' = s_count + 1
  /\ UNCHANGED <<pvars, evars, h_sent, h_articles, h_out, h_prev, h_calls, h_title, h_dup>>

NextScore == CallCalculateRelevanceScore \/ CallWithOccurrence

SpecScore == InitScore /\ [][NextScore]_vars

(***************************************************************************)
(* The history of one NewsFilter under its callers: mark_as_sent from the  *)
(* send loop, cleanup_old_data from the weekly job on its own pool thread, *)
(* and a new process that loads the file                                   *)
(***************************************************************************)
MaxMarks == 2
MaxRestarts == 1

\* titles the send loop passes to mark_as_sent
HistoryTitles == { <<"b","t","c">>, <<"e","t","h">>, <<"n","f","t">> }

\* what data/sent_headlines.json can be when a process starts: no file, a
\* file that cannot be read as JSON, a JSON object without "headlines", or a
\* file written by save_sent_headlines
HistoryFiles ==
  { [kind |-> "absent", headlines |-> <<>>],
    [kind |-> "unreadable", headlines |-> <<>>],
    [kind |-> "no_entry", headlines |-> <<>>],
    [kind |-> "ok", headlines |-> <<>>],
    [kind |-> "ok", headlines |-> << <<"b","t","c">> >>],
    [kind |-> "ok", headlines |-> << <<"b","t","c">>, <<"e","t","h">> >>] }

\* a load without the try: a file that cannot be read raises
load_sent_headlines_unguarded(file) ==
  IF file.kind = "unreadable" THEN [outcome |-> "raised", headlines |-> <<>>]
  ELSE IF file.kind = "ok" THEN [outcome |-> "returned", headlines |-> file.headlines]
  ELSE [outcome |-> "returned", headlines |-> <<>>]

\* load_sent_headlines: data.get('headlines', []) of an existing readable
\* file, [] when the file is absent or reading it raised
load_sent_headlines(file) ==
  IF file.kind = "ok" THEN [outcome |-> "returned", headlines |-> file.headlines]
  ELSE [outcome |-> "returned", headlines |-> <<>>]

\* save_sent_headlines: the file after the call.  The write succeeds, or
\* open() fails and the file is untouched, or json.dump fails after open()
\* has truncated the file
save_sent_headlines(sent, file, outcome) ==
  IF outcome = "ok" THEN [kind |-> "ok", headlines |-> LastN(sent, MAX_STORED_HEADLINES)]
  ELSE IF outcome = "untouched" THEN file
  ELSE [kind |-> "unreadable", headlines |-> <<>>]

SaveOutcomes == {"ok", "untouched", "truncated"}

\* the variables the history harness leaves alone
HistoryFrame == <<pvars, h_sent, h_articles, h_out, h_prev, h_calls, h_title, h_dup, svars,
                  fvars, nvars, kvars>>

\* NewsFilter.__init__ of the first process
InitHistory ==
  /\ PInit
  /\ SInit
  /\ h_sent = <<>>
  /\ h_articles = <<>>
  /\ h_out = <<>>
  /\ h_prev = <<>>
  /\ h_calls = 0
  /\ h_title = NoTitle
  /\ h_dup = FALSE
  /\ FInit
  /\ NInit
  /\ KInit
  /\ r_file \in HistoryFiles
  /\ r_sent = load_sent_headlines(r_file).headlines
  /\ r_load = load_sent_headlines(r_file).outcome
  /\ r_mark = IdleMark
  /\ r_cl = IdleCleanup
  /\ r_marked = r_file.headlines
  /\ r_ok = TRUE
  /\ r_fresh = TRUE
  /\ r_marks = 0
  /\ r_restarts = 0

\* the process is replaced between two calls: NewsFilter.__init__ loads the file
NewProcess ==
  /\ r_restarts < MaxRestarts
  /\ r_mark.pc = "idle"
  /\ r_cl.pc = "idle"
  /\ r_sent' = load_sent_headlines(r_file).headlines
  /\ r_load' = load_sent_headlines(r_file).outcome
  /\ r_fresh' = TRUE
  /\ r_restarts' = r_restarts + 1
  /\ UNCHANGED <<r_file, r_mark, r_cl, r_marked, r_ok, r_marks, HistoryFrame>>

\* mark_as_sent(title), first statement
HistoryMarkAppend ==
  /\ r_mark.pc = "idle"
  /\ r_marks < MaxMarks
  /\ \E title \in HistoryTitles :
       /\ r_sent' = Append(r_sent, title)
       /\ r_marked' = Append(r_marked, title)
       /\ r_mark' = [pc |-> "save", title |-> title]
  /\ r_fresh' = FALSE
  /\ r_marks' = r_marks + 1
  /\ UNCHANGED <<r_file, r_cl, r_ok, r_load, r_restarts, HistoryFrame>>

\* mark_as_sent(title), second statement
HistoryMarkSave ==
  /\ r_mark.pc = "save"
  /\ \E outcome \in SaveOutcomes :
       /\ r_file' = save_sent_headlines(r_sent, r_file, outcome)
       /\ r_ok' = (r_ok /\ outcome = "ok")
  /\ r_mark' = IdleMark
  /\ UNCHANGED <<r_sent, r_cl, r_marked, r_load, r_fresh, r_marks, r_restarts, HistoryFrame>>

\* cleanup_old_data: the slice is evaluated
HistoryCleanupSlice ==
  /\ r_cl.pc = "idle"
  /\ r_cl' = [pc |-> "store", tmp |-> LastN(r_sent, MAX_STORED_HEADLINES),
              before |-> r_sent, saved |-> FALSE]
  /\ UNCHANGED <<r_file, r_sent, r_mark, r_marked, r_ok, r_load, r_fresh, r_marks,
                 r_restarts, HistoryFrame>>

\* cleanup_old_data: the slice is stored
HistoryCleanupStore ==
  /\ r_cl.pc = "store"
  /\ r_sent' = r_cl.tmp
  /\ r_cl' = [r_cl EXCEPT !.pc = "save", !.tmp = <<>>]
  /\ UNCHANGED <<r_file, r_mark, r_marked, r_ok, r_load, r_fresh, r_marks, r_restarts,
                 HistoryFrame>>

\* cleanup_old_data: save_sent_headlines(), then the notification, and return
HistoryCleanupSave ==
  /\ r_cl.pc = "save"
  /\ \E outcome \in SaveOutcomes :
       /\ r_file' = save_sent_headlines(r_sent, r_file, outcome)
       /\ r_ok' = (r_ok /\ outcome = "ok")
       /\ r_cl' = [IdleCleanup EXCEPT !.saved = (outcome = "ok")]
  /\ UNCHANGED <<r_sent, r_mark, r_marked, r_load, r_fresh, r_marks, r_restarts, HistoryFrame>>

NextHistory ==
  \/ NewProcess
  \/ HistoryMarkAppend
  \/ HistoryMarkSave
  \/ HistoryCleanupSlice
  \/ HistoryCleanupStore
  \/ HistoryCleanupSave

SpecHistory == InitHistory /\ [][NextHistory]_vars

(***************************************************************************)
(* NewsFetcher.fetch_feed (fetch_news.py): one call, attempt by attempt     *)
(***************************************************************************)

MaxRetriesArg == 3

\* the variables a call of fetch_feed or of fetch_and_send_news leaves alone
DirectFrame == <<pvars, h_sent, h_articles, h_out, h_prev, h_calls, h_title, h_dup, svars, rvars>>

DirectInit ==
  /\ PInit
  /\ SInit
  /\ RInit
  /\ h_sent = <<>>
  /\ h_articles = <<>>
  /\ h_out = <<>>
  /\ h_prev = <<>>
  /\ h_calls = 0
  /\ h_title = NoTitle
  /\ h_dup = FALSE

\* session.get and raise_for_status raise a requests.exceptions.RequestException
RequestErrors == {"timeout", "connection_error", "http_error"}

\* feedparser.parse returned, with or without the bozo flag
FeedReturned == {"feed", "feed_bozo"}

\* how one pass through the try block can end
FetchOutcomes == FeedReturned \cup RequestErrors \cup {"unexpected_error"}

\* a fetch_feed that goes round the loop after whatever went wrong
RetriesAfterAnyError(outcome) == outcome \notin FeedReturned

\* the except clause that holds the `continue`
RetriesAfter(outcome) == outcome \in RequestErrors

InitFetch ==
  /\ DirectInit
  /\ NInit
  /\ KInit
  /\ f_retries \in 0..MaxRetriesArg
  /\ f_attempt = 0
  /\ f_pc = "loop"
  /\ f_log = <<>>
  /\ f_sleeps = <<>>
  /\ f_result = "unset"

\* one pass through the body of `for attempt in range(retries)`
FetchAttempt ==
  /\ f_pc = "loop"
  /\ f_attempt < f_retries
  /\ \E outcome \in FetchOutcomes :
       /\ f_log' = Append(f_log, outcome)
       /\ IF outcome \in FeedReturned
            THEN /\ f_result' = "feed"
                 /\ f_pc' = "done"
                 /\ UNCHANGED <<f_attempt, f_sleeps>>
            ELSE IF RetriesAfter(outcome)
              THEN /\ f_sleeps' = IF f_attempt < f_retries - 1
                                    THEN Append(f_sleeps, 2 ^ f_attempt)
                                    ELSE f_sleeps
                   /\ f_attempt' = f_attempt + 1
                   /\ UNCHANGED <<f_pc, f_result>>
              ELSE /\ f_result' = "None"
                   /\ f_pc' = "done"
                   /\ UNCHANGED <<f_attempt, f_sleeps>>
  /\ UNCHANGED <<f_retries, nvars, kvars, DirectFrame>>

\* range(retries) is exhausted: `return None`
FetchReturnNone ==
  /\ f_pc = "loop"
  /\ f_attempt >= f_retries
  /\ f_result' = "None"
  /\ f_pc' = "done"
  /\ UNCHANGED <<f_retries, f_attempt, f_log, f_sleeps, nvars, kvars, DirectFrame>>

NextFetch ==
  \/ FetchAttempt
  \/ FetchReturnNone

SpecFetch == InitFetch /\ [][NextFetch]_vars

(***************************************************************************)
(* NewsScheduler.fetch_and_send_news (scheduler.py): its retry loop         *)
(***************************************************************************)

MaxRuns == 2

max_retries == 2

\* the try block ended in a return, in the break, or in an exception
CycleReturned == {"no_articles", "no_relevant"}

CycleCompleted == {"completed", "completed_timestamp_failed"}

CycleRaised == {"raised_in_fetch", "raised_in_filter"}

CycleOutcomes == CycleReturned \cup CycleCompleted \cup CycleRaised

\* send_error_notification returned after a delivery, returned without one, or raised
NotificationOutcomes == {"delivered", "not_delivered", "raised"}

\* a retry loop that gives up one attempt early
RetryAllowedOnce(retry_count) == retry_count <= max_retries - 1

\* `if retry_count <= max_retries` of the except clause
RetryAllowed(retry_count) == retry_count <= max_retries

InitCycle ==
  /\ DirectInit
  /\ FInit
  /\ KInit
  /\ n_retry_count = 0
  /\ n_pc = "loop"
  /\ n_log = <<>>
  /\ n_notes = <<>>
  /\ n_sleeps = 0
  /\ n_runs = 1

\* one pass through the body of `while retry_count <= max_retries`
CycleAttempt ==
  /\ n_pc = "loop"
  /\ n_retry_count <= max_retries
  /\ \E outcome \in CycleOutcomes :
       /\ n_log' = Append(n_log, outcome)
       /\ IF outcome \in CycleRaised
            THEN /\ n_retry_count' = n_retry_count + 1
                 /\ IF RetryAllowed(n_retry_count + 1)
                      THEN /\ n_sleeps' = n_sleeps + 1
                           /\ n_pc' = "loop"
                      ELSE /\ n_sleeps' = n_sleeps
                           /\ n_pc' = "notify"
            ELSE /\ n_pc' = "done"
                 /\ UNCHANGED <<n_retry_count, n_sleeps>>
  /\ UNCHANGED <<n_notes, n_runs, fvars, kvars, DirectFrame>>

\* the else branch of the except clause; the loop condition then fails
SendErrorNotification ==
  /\ n_pc = "notify"
  /\ \E outcome \in NotificationOutcomes : n_notes' = Append(n_notes, outcome)
  /\ n_pc' = "done"
  /\ UNCHANGED <<n_retry_count, n_log, n_sleeps, n_runs, fvars, kvars, DirectFrame>>

\* the scheduler runs the job again
InvokeFetchAndSendNews ==
  /\ n_pc = "done"
  /\ n_runs < MaxRuns
  /\ n_runs' = n_runs + 1
  /\ n_retry_count' = 0
  /\ n_pc' = "loop"
  /\ n_log' = <<>>
  /\ n_notes' = <<>>
  /\ n_sleeps' = 0
  /\ UNCHANGED <<fvars, kvars, DirectFrame>>

NextCycle ==
  \/ CycleAttempt
  \/ SendErrorNotification
  \/ InvokeFetchAndSendNews

SpecCycle == InitCycle /\ [][NextCycle]_vars

(***************************************************************************)
(* BotMonitor (keepalive.py): start() and the iterations of monitor_loop.   *)
(* Every call in the try block of an iteration catches its own exceptions,  *)
(* so an iteration runs from the process check to the alert check.          *)
(***************************************************************************)

MaxIterations == 4

max_inactive_minutes == 10

\* ages, in seconds, of the timestamp in data/last_activity.txt
ActivityAges == {0, 599, 600}

NoActivityFile == [kind |-> "missing", age |-> 0]

\* the file as a reader finds it while the bot is rewriting it
GarbledActivity == [kind |-> "garbled", age |-> 0]

FreshActivity == [kind |-> "timestamp", age |-> 0]

MonitorFrame == <<DirectFrame, fvars, nvars>>

\* check_bot_activity: False without a file and on any exception
check_bot_activity(activity) ==
  IF activity.kind = "missing" THEN FALSE
  ELSE IF activity.kind = "garbled" THEN FALSE
  ELSE activity.age < max_inactive_minutes * 60

\* start_bot: Popen, then update_activity_timestamp, which keeps its errors
start_bot(bot, activity, popen_ok, stamp_ok) ==
  IF popen_ok
    THEN [ok |-> TRUE, bot |-> "running",
          activity |-> IF stamp_ok THEN FreshActivity ELSE activity]
    ELSE [ok |-> FALSE, bot |-> bot, activity |-> activity]

\* stop_bot: terminate and wait; an exception leaves the process as it is
stop_bot(bot, stop_ok) ==
  IF bot = "running" /\ stop_ok THEN "exited" ELSE bot

\* a monitor that takes any process object for a running bot
ProcessAbsent(bot) == bot = "none"

\* `not self.bot_process or self.bot_process.poll() is not None`
ProcessNotRunning(bot) == bot = "none" \/ bot = "exited"

\* a monitor that alerts only above three failures
AlertDueAbove(failures) == failures > 3

\* `if consecutive_failures >= 3`
AlertDue(failures) == failures >= 3

Max(a, b) == IF a >= b THEN a ELSE b

\* BotMonitor.__init__, before start()
InitMonitor ==
  /\ DirectInit
  /\ FInit
  /\ NInit
  /\ k_pc = "init"
  /\ k_running = TRUE
  /\ k_bot = "none"
  /\ k_activity \in {NoActivityFile} \cup [kind : {"timestamp"}, age : ActivityAges]
  /\ k_failures = 0
  /\ k_iter = NoIteration
  /\ k_count = 0

\* start(): the initial start_bot, then monitor_loop or `return False`
StartMonitor ==
  /\ k_pc = "init"
  /\ \E popen_ok, stamp_ok \in BOOLEAN :
       LET st == start_bot(k_bot, k_activity, popen_ok, stamp_ok)
       IN  /\ k_bot' = st.bot
           /\ k_activity' = st.activity
           /\ k_pc' = IF st.ok THEN "loop" ELSE "ended"
  /\ UNCHANGED <<k_running, k_failures, k_iter, k_count, MonitorFrame>>

\* one iteration of `while self.running`
MonitorIteration ==
  /\ k_pc = "loop"
  /\ k_running
  /\ k_count < MaxIterations
  /\ \E popen_ok, stop_ok, stamp_ok, due, conn_ok \in BOOLEAN :
       LET not_running == ProcessNotRunning(k_bot)
           inactive == ~not_running /\ ~check_bot_activity(k_activity)
           stopped == IF inactive THEN stop_bot(k_bot, stop_ok) ELSE k_bot
           st == IF not_running \/ inactive
                   THEN start_bot(stopped, k_activity, popen_ok, stamp_ok)
                   ELSE [ok |-> FALSE, bot |-> k_bot, activity |-> k_activity]
           calls == IF not_running THEN <<"start_bot">>
                    ELSE IF inactive THEN <<"stop_bot", "start_bot">>
                    ELSE <<>>
           after_start == IF not_running \/ inactive
                            THEN IF st.ok THEN 0 ELSE k_failures + 1
                            ELSE k_failures
           notes_start == IF st.ok
                            THEN IF not_running THEN <<"restarted">>
                                 ELSE <<"restarted_inactive">>
                            ELSE <<>>
           after_check == IF due /\ ~conn_ok THEN after_start + 1 ELSE after_start
           alert == AlertDue(after_check)
       IN  /\ k_bot' = st.bot
           /\ k_activity' = st.activity
           /\ k_failures' = IF alert THEN 0 ELSE after_check
           /\ k_iter' = [bot |-> k_bot, activity |-> k_activity,
                         failures |-> k_failures, calls |-> calls,
                         started |-> st.ok, after_start |-> after_start,
                         checked |-> IF ~due THEN "no"
                                     ELSE IF conn_ok THEN "ok" ELSE "lost",
                         peak |-> Max(k_failures, after_check),
                         notes |-> IF alert THEN Append(notes_start, "alert")
                                   ELSE notes_start,
                         ended |-> IF alert THEN 0 ELSE after_check]
  /\ k_count' = k_count + 1
  /\ UNCHANGED <<k_pc, k_running, MonitorFrame>>

\* the bot process ends on its own
BotExits ==
  /\ k_pc = "loop"
  /\ k_bot = "running"
  /\ k_bot' = "exited"
  /\ UNCHANGED <<k_pc, k_running, k_activity, k_failures, k_iter, k_count, MonitorFrame>>

\* the bot completes a news cycle and writes the timestamp
BotWritesActivity ==
  /\ k_pc = "loop"
  /\ k_bot = "running"
  /\ k_activity # FreshActivity
  /\ k_activity' = FreshActivity
  /\ UNCHANGED <<k_pc, k_running, k_bot, k_failures, k_iter, k_count, MonitorFrame>>

\* the file is read after the bot has opened it for writing and before the write
BotRewritesActivity ==
  /\ k_pc = "loop"
  /\ k_bot = "running"
  /\ k_activity.kind # "garbled"
  /\ k_activity' = GarbledActivity
  /\ UNCHANGED <<k_pc, k_running, k_bot, k_failures, k_iter, k_count, MonitorFrame>>

\* time passes with no write of the timestamp
TimePasses ==
  /\ k_pc = "loop"
  /\ k_activity.kind = "timestamp"
  /\ \E age \in ActivityAges :
       /\ age > k_activity.age
       /\ k_activity' = [k_activity EXCEPT !.age = age]
  /\ UNCHANGED <<k_pc, k_running, k_bot, k_failures, k_iter, k_count, MonitorFrame>>

\* shutdown, on SIGINT or SIGTERM: running = False, stop_bot, sys.exit
Shutdown ==
  /\ k_pc = "loop"
  /\ k_running' = FALSE
  /\ \E stop_ok \in BOOLEAN : k_bot' = stop_bot(k_bot, stop_ok)
  /\ k_pc' = "ended"
  /\ UNCHANGED <<k_activity, k_failures, k_iter, k_count, MonitorFrame>>

NextMonitor ==
  \/ StartMonitor
  \/ MonitorIteration
  \/ BotExits
  \/ BotWritesActivity
  \/ BotRewritesActivity
  \/ TimePasses
  \/ Shutdown

SpecMonitor == InitMonitor /\ [][NextMonitor]_vars

(***************************************************************************)
(* Properties                                                              *)
(***************************************************************************)
\* a title that is empty or holds only blanks
Blank(title) == Strip(title) = <<>>

IsSuffix(t, q) == Len(t) <= Len(q) /\ SubSeq(q, Len(q) - Len(t) + 1, Len(q)) = t

\* the step is thread s returning from filter_articles
FilterStep(s) == cyc[s].pc = "filter" /\ cyc'[s].pc # "filter"

\* the step is a save_sent_headlines call that wrote the file
SuccessfulSaveStep ==
  /\ \/ \E s \in Slots : cyc[s].pc = "save" /\ cyc'[s].pc # "save"
     \/ cl_pc = "save" /\ cl_pc' = "idle"
  /\ persisted' = LastN(sent_headlines, MAX_STORED_HEADLINES)

\* C1: no article whose title is empty or holds only whitespace is in the
\* output of filter_articles, whatever its summary, source and category are.
C1_BlankTitleExcluded ==
  h_calls > 0 => \A i \in 1..Len(h_out) : ~Blank(Get(h_out[i], "title", <<>>))

\* C2: the in-memory history that is_duplicate consults never holds more than
\* MAX_STORED_HEADLINES titles.
C2_InMemoryHistoryBounded == Len(sent_headlines) <= MAX_STORED_HEADLINES

\* C3: in every execution of the send loop each article is sent once,
\* mark_as_sent runs exactly once for an article whose send_message returned
\* True and never for one whose send failed or raised, and every title in the
\* history was delivered before it was recorded.
C3_MarkedExactlyWhenDelivered ==
  /\ \A s \in Slots :
       LET c == cyc[s]
       IN  /\ Len(c.results) = (IF c.pc \in {"mark", "save"} THEN c.idx
                                ELSE IF c.pc \in {"send", "finish"} THEN c.idx - 1 ELSE 0)
           /\ \A i \in 1..Len(c.results) :
                /\ c.results[i].title = c.filtered[i].title
                /\ c.results[i].marks <= 1
                /\ c.results[i].marks = 1 => c.results[i].outcome = "ok"
                /\ (i < c.idx /\ c.results[i].outcome = "ok") => c.results[i].marks = 1
  /\ Range(sent_headlines) \subseteq delivered
  /\ Range(persisted) \subseteq delivered

\* C3 witness: a send loop has ended with one article delivered and marked and
\* another one failed and not marked
C3_Witness ==
  \E s \in Slots :
    /\ cyc[s].pc = "finish"
    /\ \E i, j \in 1..Len(cyc[s].results) :
         /\ cyc[s].results[i].outcome = "ok" /\ cyc[s].results[i].marks = 1
         /\ cyc[s].results[j].outcome # "ok" /\ cyc[s].results[j].marks = 0

\* C4: a filter_articles call returns no article whose title equals a title
\* that is in the history at the call.
C4_ExactTitleInHistoryExcluded ==
  [][\A s \in Slots : FilterStep(s) =>
       \A i \in 1..Len(cyc'[s].filtered) :
          cyc'[s].filtered[i].title \notin Range(sent_headlines)]_vars

\* C4 witness: filter_articles has returned some articles and left out an
\* article whose title mark_as_sent had recorded and the history holds
C4_Witness ==
  \E s \in Slots :
    /\ cyc[s].pc = "send"
    /\ cyc[s].idx = 1
    /\ \E i \in 1..Len(cyc[s].articles) :
         /\ cyc[s].articles[i].title \in Range(sent_headlines)
         /\ cyc[s].articles[i].title \in Range(marked)
         /\ \A j \in 1..Len(cyc[s].filtered) :
              cyc[s].filtered[j].title # cyc[s].articles[i].title

\* the word set of the claim: lowercase, drop every character that is neither
\* a word character nor whitespace, split at whitespace
ClaimWordSet(title) == SplitSet(RemoveNonWord(Lower(title)))

\* Jaccard similarity strictly above 0.85 = 17/20, false for an empty word set
ClaimNearDuplicate(t1, t2) ==
  LET w1 == ClaimWordSet(t1)
      w2 == ClaimWordSet(t2)
  IN  /\ w1 # {}
      /\ w2 # {}
      /\ 20 * Cardinality(w1 \cap w2) > 17 * Cardinality(w1 \cup w2)

\* C5: is_duplicate(title) is true exactly when the raw title equals a stored
\* title or its Jaccard similarity with some stored title is above 0.85.
C5_IsDuplicateIffExactOrNear ==
  h_title # NoTitle =>
    (h_dup <=> \/ \E i \in 1..Len(h_sent) : h_title = h_sent[i]
               \/ \E i \in 1..Len(h_sent) : ClaimNearDuplicate(h_title, h_sent[i]))

\* C5 witness: is_duplicate said yes for a title that equals no stored title
\* (6 of 7 words shared with one stored title, 5 of 6 with the other)
C5_Witness ==
  /\ h_dup
  /\ h_title = Words(6)
  /\ h_sent = <<Words(7), Words(5)>>

\* C6: after a successful save the persisted list has at most
\* MAX_STORED_HEADLINES entries and is the most recent titles marked sent, in
\* delivery order.
C6_PersistedIsMostRecentMarked ==
  [][SuccessfulSaveStep =>
       /\ Len(persisted') <= MAX_STORED_HEADLINES
       /\ persisted' = LastN(marked, MAX_STORED_HEADLINES)]_vars

\* C7: a filter_articles call changes neither the in-memory history nor the
\* persisted file.
C7_FilterLeavesHistoryUnchanged ==
  [][(\E s \in Slots : FilterStep(s)) =>
       /\ sent_headlines' = sent_headlines
       /\ persisted' = persisted]_vars

\* C7 witness: filter_articles has accepted an article, and its title is not
\* in the history
C7_Witness ==
  \E s \in Slots :
    /\ cyc[s].pc = "send"
    /\ cyc[s].idx = 1
    /\ cyc[s].filtered[1].title \notin Range(sent_headlines)
    /\ cyc[s].filtered[1].title \notin Range(persisted)

\* C8: a second filter_articles call on the same list, which the first call
\* annotated, with the history unchanged, returns the same articles with the
\* same scores.
C8_FilterIdempotent == h_calls = 2 => h_out = h_prev

\* C8 witness: two calls were made on a list of which the first call accepted
\* one record and annotated and rejected another
C8_Witness ==
  /\ h_calls = 2
  /\ h_out # <<>>
  /\ h_out[1].relevance_score > 0
  /\ \E i \in 1..Len(h_articles) :
       /\ "relevance_score" \in DOMAIN h_articles[i]
       /\ h_articles[i].relevance_score = 0

\* C9: a title that was marked sent leaves the in-memory history only by
\* eviction of the oldest entries beyond the bound: the most recent
\* MAX_STORED_HEADLINES marked titles are always its last entries.
C9_MarkedTitleNeverLost ==
  IsSuffix(LastN(marked, MAX_STORED_HEADLINES), sent_headlines)

\* C10: at most one execution of fetch_and_send_news is running at any time,
\* and the scheduler runs none before the initial one has returned.
C10_OneCycleAtATime ==
  /\ Cardinality({s \in Slots : Running(s)}) <= 1
  /\ Running("main") => main_pc = "initial"

\* C10 witness: a scheduled execution is sending on a pool thread after the
\* initial one has delivered a title
C10_Witness ==
  /\ main_pc = "scheduling"
  /\ \E w \in Workers : cyc[w].pc = "send"
  /\ marked # <<>>

\* the sum of f over the finite set S
RECURSIVE SumOver(_, _)
SumOver(S, f) ==
  IF S = {} THEN 0
  ELSE LET x == CHOOSE y \in S : TRUE
       IN  f[x] + SumOver(S \ {x}, f)

\* the occurrences of sub in text: the most places at which sub occurs that
\* do not overlap one another
ClaimOccurrences(text, sub) ==
  LET places == {i \in 1..Len(text) : OccursAt(text, sub, i)}
      Apart(P) == \A i, j \in P : i < j => j - i >= Len(sub)
      sizes == {Cardinality(P) : P \in {Q \in SUBSET places : Apart(Q)}}
  IN  CHOOSE n \in sizes : \A m \in sizes : m <= n

\* the score as the claim states it, in tenths
ClaimScore(article) ==
  LET title == Lower(Get(article, "title", <<>>))
      summary == Lower(Get(article, "summary", <<>>))
      keywords == IF article.category = "crypto" THEN CRYPTO_KEYWORDS ELSE GOLD_KEYWORDS
      perKeyword == [i \in 1..Len(keywords) |->
                       ClaimOccurrences(title, Lower(keywords[i])) * 20
                         + ClaimOccurrences(summary, Lower(keywords[i])) * 10]
      present == {i \in 1..Len(important_terms) :
                    \/ Contains(title, important_terms[i].term)
                    \/ Contains(summary, important_terms[i].term)}
      perTerm == [i \in 1..Len(important_terms) |-> important_terms[i].weight]
  IN  SumOver(1..Len(keywords), perKeyword) + SumOver(present, perTerm)

\* C11: for an article that has a category, calculate_relevance_score returns
\* the sum over the keywords of the category's list of title occurrences * 2.0
\* plus summary occurrences * 1.0, plus the weight of every bonus term that
\* occurs in the text, each term counted once.
C11_ScoreIsKeywordSumPlusBonus ==
  s_result.outcome = "returned" => s_result.score = ClaimScore(s_article)

\* C11 witness: a score was returned for a record with a keyword in title and
\* summary and a bonus term that occurs twice: 2.0 + 1.0 + 1.5
C11_Witness ==
  /\ s_result.outcome = "returned"
  /\ s_count = 0
  /\ Count(Get(s_article, "title", <<>>), <<"h","i","g","h">>) = 2
  /\ s_result.score = 45

\* the weight of an occurrence in the field an occurrence was added to, in tenths
AddedWeight == IF s_added.field = "title" THEN 20 ELSE 10

\* C12: one more occurrence of a keyword of the category's list that the
\* title already holds raises the score by exactly 2.0 when added to the
\* title and by exactly 1.0 when added to the summary.
C12_OccurrenceAddsItsWeight ==
  s_added.field # "none" => s_result.score = s_prev.score + AddedWeight

\* the keywords of the record's list found in the added keyword, itself included
KeywordsWithin(keyword, keywords) ==
  SumOver(1..Len(keywords), [i \in 1..Len(keywords) |-> ClaimOccurrences(keyword, Lower(keywords[i]))])

\* C12 amended: one more occurrence of such a keyword, appended as a word of
\* its own, raises the score by 2.0 (title) or 1.0 (summary) for every keyword
\* of the list that occurs in the added keyword, itself included: by exactly
\* 2.0 or 1.0 only when no other keyword of the list is a substring of it.
C12_OccurrenceAddsWeightPerKeywordWithin ==
  s_added.field # "none" =>
    s_result.score = s_prev.score + AddedWeight * KeywordsWithin(s_added.keyword, KeywordsOf(s_article))

\* C12 witness: "bitcoin" was added to a title that held it, and the score
\* rose by 4.0, for "bitcoin" and for "coin"
C12_Witness ==
  /\ s_added = [field |-> "title", keyword |-> <<"b","i","t","c","o","i","n">>]
  /\ s_result.score = s_prev.score + 40

\* C13: calculate_relevance_score has no error outcome: for every record, one
\* without title, summary or category included, the call returns a score that
\* is not negative.
C13_ScoreNeverRaises ==
  s_result.outcome # "none" => (s_result.outcome = "returned" /\ s_result.score >= 0)

\* the combined title+summary text of a record holds a keyword of its
\* category's list, letter case aside
ClaimHasKeyword(article) ==
  LET text == Lower(Get(article, "title", <<>>) \o <<" ">> \o Get(article, "summary", <<>>))
      keywords == IF article.category = "crypto" THEN CRYPTO_KEYWORDS ELSE GOLD_KEYWORDS
  IN  \E i \in 1..Len(keywords) : Contains(text, Lower(keywords[i]))

\* the trusted-source substrings of each category
ClaimTrustedSources ==
  [crypto |-> { <<"c","o","i","n","d","e","s","k">>,
                <<"c","o","i","n","t","e","l","e","g","r","a","p","h">>,
                <<"d","e","c","r","y","p","t">> },
   gold |-> { <<"m","i","n","i","n","g">> }]

ClaimTrustedSource(article) ==
  /\ article.category \in DOMAIN ClaimTrustedSources
  /\ \E t \in ClaimTrustedSources[article.category] :
       Contains(Lower(Get(article, "source", <<>>)), t)

\* the title is in the history or a near-duplicate of a title in it
ClaimDuplicate(title, sent) ==
  \/ \E i \in 1..Len(sent) : title = sent[i]
  \/ \E i \in 1..Len(sent) : ClaimNearDuplicate(title, sent[i])

\* C14: a crypto article from a CoinDesk, Cointelegraph or Decrypt source and
\* a gold article from a mining source, with a non-empty title that is not a
\* duplicate, is in the output of filter_articles, keyword or no keyword.
C14_TrustedSourceAccepted ==
  h_calls > 0 =>
    \A i \in 1..Len(h_articles) :
      LET a == h_articles[i]
      IN  (/\ "category" \in DOMAIN a
           /\ Get(a, "title", <<>>) # <<>>
           /\ ~ClaimDuplicate(a.title, h_sent)
           /\ ClaimTrustedSource(a))
            => \E j \in 1..Len(h_out) : h_out[j] = a

\* C15: an article with no keyword of its category's list in its text and no
\* trusted-source substring in its source is never in the output of
\* filter_articles, bonus terms or not.
C15_NoKeywordNoTrustedSourceRejected ==
  h_calls > 0 =>
    \A j \in 1..Len(h_out) : ClaimHasKeyword(h_out[j]) \/ ClaimTrustedSource(h_out[j])

\* C15 witness: of two articles filter_articles returned one and left out the
\* one that has bonus terms, no keyword and a source that is not trusted
C15_Witness ==
  /\ h_calls > 0
  /\ Len(h_out) = 1
  /\ \E i \in 1..Len(h_articles) :
       LET a == h_articles[i]
       IN  /\ "category" \in DOMAIN a
           /\ Contains(Get(a, "title", <<>>), <<"h","i","g","h">>)
           /\ ~ClaimHasKeyword(a)
           /\ ~ClaimTrustedSource(a)
           /\ a # h_out[1]

\* C16: every article in the output of filter_articles carries a
\* relevance_score that is its calculate_relevance_score and is at least 0.1.
C16_OutputScoredAtLeastThreshold ==
  h_calls > 0 =>
    \A j \in 1..Len(h_out) :
      /\ "relevance_score" \in DOMAIN h_out[j]
      /\ h_out[j].relevance_score = ClaimScore(h_out[j])
      /\ h_out[j].relevance_score >= 1

\* C16 witness: filter_articles returned an article admitted by its source
\* with a score from a bonus term, and left out one it had scored 0.0
C16_Witness ==
  /\ h_calls > 0
  /\ Len(h_out) = 1
  /\ ~ClaimHasKeyword(h_out[1])
  /\ h_out[1].relevance_score = 25
  /\ \E i \in 1..Len(h_articles) : Get(h_articles[i], "relevance_score", 1) = 0

\* C17: the output of filter_articles is in descending order of
\* relevance_score, and output articles of equal score are in the order they
\* had in the input list.
C17_OutputSortedStable ==
  h_calls > 0 =>
    \E f \in [1..Len(h_out) -> 1..Len(h_articles)] :
      /\ \A i \in 1..Len(h_out) : h_out[i] = h_articles[f[i]]
      /\ \A i, j \in 1..Len(h_out) :
           i < j => \/ h_out[i].relevance_score > h_out[j].relevance_score
                    \/ /\ h_out[i].relevance_score = h_out[j].relevance_score
                       /\ f[i] < f[j]

\* C17 witness: filter_articles returned two different articles of equal score
C17_Witness ==
  /\ h_calls > 0
  /\ Len(h_out) = 2
  /\ h_out[1].relevance_score = h_out[2].relevance_score
  /\ h_out[1].title # h_out[2].title

\* the article passes every gate of filter_articles
ClaimPasses(article, sent) ==
  /\ Get(article, "title", <<>>) # <<>>
  /\ ~ClaimDuplicate(article.title, sent)
  /\ "category" \in DOMAIN article
  /\ ClaimHasKeyword(article) \/ ClaimTrustedSource(article)
  /\ ClaimScore(article) >= 1

Min(a, b) == IF a < b THEN a ELSE b

\* C18: the output of filter_articles has min(6, number of passing articles)
\* entries, and they are the highest-scored passing articles: for every score
\* the output holds as many articles of at least that score as there are, up
\* to 6.
C18_OutputIsTopSix ==
  h_calls > 0 =>
    LET passing == {i \in 1..Len(h_articles) : ClaimPasses(h_articles[i], h_sent)}
        score == [i \in passing |-> h_articles[i].relevance_score]
    IN  /\ Len(h_out) = Min(6, Cardinality(passing))
        /\ \A j \in 1..Len(h_out) : \E i \in passing : h_articles[i] = h_out[j]
        /\ \A k \in passing :
             Cardinality({j \in 1..Len(h_out) : h_out[j].relevance_score >= score[k]})
               = Min(6, Cardinality({i \in passing : score[i] >= score[k]}))

\* C18 witness: seven articles passed, the last one with the highest score,
\* and filter_articles returned six with that one first
C18_Witness ==
  /\ h_calls > 0
  /\ Len(h_out) = 6
  /\ \A i \in 1..Len(h_articles) : "relevance_score" \in DOMAIN h_articles[i]
  /\ Len(h_articles) > 6
  /\ h_out[1] = h_articles[Len(h_articles)]
  /\ h_out[1].relevance_score > h_out[6].relevance_score
  /\ h_articles[1].relevance_score = h_out[6].relevance_score

\* processing the article raises: its title passes the first two gates and
\* the record has no category
ClaimRaises(article, sent) ==
  /\ Get(article, "title", <<>>) # <<>>
  /\ ~ClaimDuplicate(article.title, sent)
  /\ "category" \notin DOMAIN article

\* C19: filter_articles returns for every list, and an article whose
\* processing raises is skipped: the output is that of the same list without
\* that article.
C19_RaisingArticleSkipped ==
  h_calls > 0 =>
    h_out = filter_articles(SelectSeq(h_articles, LAMBDA a : ~ClaimRaises(a, h_sent)), h_sent)

\* C19 witness: the first article of the list raised and filter_articles
\* returned the second
C19_Witness ==
  /\ h_calls > 0
  /\ Len(h_articles) = 2
  /\ ClaimRaises(h_articles[1], h_sent)
  /\ h_out = <<h_articles[2]>>

\* the step is thread s returning from a mark_as_sent call whose write failed
FailedMarkSaveStep(s) == cyc[s].pc = "save" /\ cyc'[s].pc # "save" /\ unsaved' > 0

\* the step is the first save that wrote the file after a failed write
SaveAfterFailureStep == unsaved > 0 /\ unsaved' = 0

\* C20: when the write fails, mark_as_sent returns with the title in the
\* in-memory history, where it counts as a duplicate; and after the next save
\* that succeeds the file holds every title marked since the failure that is
\* among the most recent MAX_STORED_HEADLINES.
C20_FailedWriteKeepsTitleAndIsRetried ==
  [][/\ \A s \in Slots :
          FailedMarkSaveStep(s) =>
            LET title == cyc[s].filtered[cyc[s].idx].title
            IN  /\ cyc'[s].pc \in {"send", "finish"}
                /\ title \in Range(sent_headlines')
                /\ is_duplicate(title, sent_headlines')
     /\ SaveAfterFailureStep =>
          Range(LastN(marked, Min(unsaved, MAX_STORED_HEADLINES))) \subseteq Range(persisted')
    ]_vars

\* the step is a new process loading the history file
LoadStep == r_restarts' = r_restarts + 1

\* C21: load_sent_headlines never raises, and when the file is absent, cannot
\* be read or has no headlines entry the new filter starts with an empty
\* history.
C21_LoadNeverRaises ==
  [][LoadStep =>
       /\ r_load' = "returned"
       /\ r_file.kind # "ok" => r_sent' = <<>>]_vars

\* C21 witness: a new process has loaded a file that a failed write had left
\* unreadable after titles were marked, and its history is empty
C21_Witness ==
  /\ r_restarts > 0
  /\ r_fresh
  /\ r_cl.pc = "idle"
  /\ r_load = "returned"
  /\ r_file.kind = "unreadable"
  /\ r_marks > 0
  /\ r_sent = <<>>

\* an article with the title that would pass every other gate
ProbeArticle(title) ==
  [title |-> title, summary |-> <<"b","t","c">>, category |-> "crypto", source |-> <<>>]

\* C22: if every save succeeded, the history a new process loads is the most
\* recent MAX_STORED_HEADLINES titles marked sent, in delivery order, and
\* filter_articles rejects each of them.
C22_HistorySurvivesRestart ==
  [][(LoadStep /\ r_ok) =>
       /\ r_sent' = LastN(r_marked, MAX_STORED_HEADLINES)
       /\ \A i \in 1..Len(r_marked) :
            i > Len(r_marked) - MAX_STORED_HEADLINES =>
              filter_articles(<<ProbeArticle(r_marked[i])>>, r_sent') = <<>>]_vars

\* the step is cleanup_old_data returning
CleanupDoneStep == r_cl.pc = "save" /\ r_cl'.pc = "idle"

\* C23: when cleanup_old_data returns, the in-memory history is the last
\* MAX_STORED_HEADLINES entries of the history as it was when the cleanup
\* began, unchanged if that was within the bound, and the file holds the same
\* list if the save succeeded.
C23_CleanupKeepsLastEntries ==
  [][CleanupDoneStep =>
       /\ r_sent' = LastN(r_cl.before, MAX_STORED_HEADLINES)
       /\ Len(r_cl.before) <= MAX_STORED_HEADLINES => r_sent' = r_cl.before
       /\ r_cl'.saved => r_file' = [kind |-> "ok", headlines |-> r_sent']]_vars

\* C24: the output of one filter_articles call holds no two articles with
\* the same title or with titles that are near-duplicates of each other.
C24_OutputTitlesDistinct ==
  h_calls > 0 =>
    \A i, j \in 1..Len(h_out) :
      i < j => /\ h_out[i].title # h_out[j].title
               /\ ~ClaimNearDuplicate(h_out[i].title, h_out[j].title)

\* the text of the record holds a term of the bonus table
ClaimHasBonusTerm(article) ==
  LET text == Lower(Get(article, "title", <<>>) \o <<" ">> \o Get(article, "summary", <<>>))
  IN  \E i \in 1..Len(important_terms) : Contains(text, important_terms[i].term)

\* C25: an article that passes the keyword gate by a keyword match is scored
\* at least 1.0 and passes the threshold; the threshold rejects only articles
\* admitted by the source fallback that hold no keyword and no bonus term.
C25_ThresholdRejectsOnlyBareFallback ==
  h_calls > 0 =>
    \A i \in 1..Len(h_articles) :
      LET a == h_articles[i]
      IN  (/\ "category" \in DOMAIN a
           /\ Get(a, "title", <<>>) # <<>>
           /\ ~ClaimDuplicate(a.title, h_sent))
            => /\ ClaimHasKeyword(a) =>
                    /\ "relevance_score" \in DOMAIN a
                    /\ a.relevance_score >= 10
                    /\ \E j \in 1..Len(h_out) : h_out[j] = a
               /\ ("relevance_score" \in DOMAIN a /\ a.relevance_score < 1) =>
                    /\ ~ClaimHasKeyword(a)
                    /\ ClaimTrustedSource(a)
                    /\ ~ClaimHasBonusTerm(a)

\* C25 witness: an article whose keyword is written in capitals was returned
\* with score 2.0, and a fallback article was scored 0.0 and left out
C25_Witness ==
  /\ h_calls > 0
  /\ Len(h_out) = 1
  /\ h_out[1].title = <<"B","T","C","!">>
  /\ h_out[1].relevance_score = 20
  /\ \E i \in 1..Len(h_articles) :
       /\ Get(h_articles[i], "relevance_score", 1) = 0
       /\ ClaimTrustedSource(h_articles[i])

\* the attempt ended in an exception of the requests library
ClaimRequestError(outcome) == outcome \in {"timeout", "connection_error", "http_error"}

ClaimSucceeded(outcome) == outcome \in {"feed", "feed_bozo"}

\* C26: fetch_feed makes at most `retries` request attempts; an attempt is
\* followed by another one only if it ended in a request error, so the first
\* success and any other exception end the call; the call can always go on
\* until it has returned, and it returns None exactly when no attempt
\* succeeded and the feed otherwise.
C26_FetchFeedBoundedRetries ==
  /\ Len(f_log) <= f_retries
  /\ \A i \in 1..(Len(f_log) - 1) : ClaimRequestError(f_log[i])
  /\ (f_pc = "loop" /\ f_log # <<>>) => ClaimRequestError(f_log[Len(f_log)])
  /\ f_pc # "done" => ENABLED NextFetch
  /\ f_pc = "done" =>
       /\ f_result \in {"feed", "None"}
       /\ f_result = "None" <=> \A i \in 1..Len(f_log) : ~ClaimSucceeded(f_log[i])
       /\ f_result = "feed" => ClaimSucceeded(f_log[Len(f_log)])

\* C26 witness: the default three attempts, two request errors and then a feed
C26_Witness ==
  /\ f_pc = "done"
  /\ f_retries = 3
  /\ f_log = <<"timeout", "http_error", "feed">>
  /\ f_sleeps = <<1, 2>>
  /\ f_result = "feed"

ClaimCycleRaised(outcome) == outcome \in {"raised_in_fetch", "raised_in_filter"}

\* C27: one invocation of fetch_and_send_news makes at most 3 attempts of the
\* cycle; an attempt is followed by another one only if it raised; the
\* invocation can always go on until it has returned; send_error_notification
\* is called at most once, after the last attempt, and exactly in the
\* invocations whose 3 attempts all raised.
C27_CycleBoundedRetries ==
  /\ Len(n_log) <= 3
  /\ \A i \in 1..(Len(n_log) - 1) : ClaimCycleRaised(n_log[i])
  /\ (n_pc = "loop" /\ n_log # <<>>) => ClaimCycleRaised(n_log[Len(n_log)])
  /\ n_pc \in {"loop", "notify"} => ENABLED NextCycle
  /\ Len(n_notes) <= 1
  /\ n_pc \in {"loop", "notify"} => n_notes = <<>>
  /\ n_pc = "done" =>
       (Len(n_notes) = 1 <=>
          /\ Len(n_log) = 3
          /\ \A i \in 1..3 : ClaimCycleRaised(n_log[i]))

\* C27 witness: three attempts raised, two waits, and the notification call
\* itself raised and was swallowed
C27_Witness ==
  /\ n_pc = "done"
  /\ Len(n_log) = 3
  /\ \A i \in 1..3 : ClaimCycleRaised(n_log[i])
  /\ n_sleeps = 2
  /\ n_notes = <<"raised">>

\* no timestamp younger than 10 minutes is on file
ClaimInactive(activity) ==
  ~(activity.kind = "timestamp" /\ activity.age < 600)

\* C28: an iteration of the monitor loop that finds the bot process absent or
\* exited calls start_bot, and one that finds it running with no activity
\* timestamp within 10 minutes calls stop_bot and then start_bot.
C28_DeadOrStalledBotIsRestarted ==
  k_count > 0 =>
    /\ k_iter.bot \in {"none", "exited"} =>
         \E i \in 1..Len(k_iter.calls) : k_iter.calls[i] = "start_bot"
    /\ (k_iter.bot = "running" /\ ClaimInactive(k_iter.activity)) =>
         k_iter.calls = <<"stop_bot", "start_bot">>

\* C28 witness: the iteration found the process exited although the timestamp
\* was fresh, and started it
C28_Witness ==
  /\ k_count > 0
  /\ k_iter.bot = "exited"
  /\ ~ClaimInactive(k_iter.activity)
  /\ k_iter.calls = <<"start_bot">>
  /\ k_iter.started
  /\ k_bot = "running"

ClaimAlerted(iteration) ==
  \E i \in 1..Len(iteration.notes) : iteration.notes[i] = "alert"

\* C29: the failure counter is at most 2 whenever an iteration starts; an
\* iteration sends the alert exactly if the counter reached 3 or more in it,
\* and then ends with the counter at 0; a successful start or restart sets the
\* counter to 0 and the iteration sends no alert.
C29_FailureCounterBelowThree ==
  /\ k_pc = "loop" => k_failures <= 2
  /\ k_count > 0 =>
       /\ k_iter.failures <= 2
       /\ ClaimAlerted(k_iter) <=> k_iter.peak >= 3
       /\ ClaimAlerted(k_iter) => k_iter.ended = 0
       /\ k_iter.started =>
            /\ k_iter.after_start = 0
            /\ ~ClaimAlerted(k_iter)

\* C29 witness: two failures on entry, a failed start and a failed
\* connectivity check in one iteration, the alert, and the counter back at 0
C29_Witness ==
  /\ k_count > 0
  /\ k_iter.failures = 2
  /\ k_iter.peak = 4
  /\ ClaimAlerted(k_iter)
  /\ k_failures = 0

====
